---- MODULE Spec2Model ----
(***************************************************************************)
(* Model of the WhatsApp connector of the Matrix bridge:                   *)
(*   pkg/connector/connector.go  (LoadUserLogin, GetChatInfo and the       *)
(*                                wrap*Info / apply* steps it runs)        *)
(*   pkg/connector/commands.go   (accept, list-groups, test-sync-timer)    *)
(*                                                                         *)
(* Go pointers that may be nil are modelled as sets with at most one       *)
(* element: None is nil, Some(v) is a pointer to v.                        *)
(***************************************************************************)
EXTENDS Integers, Sequences, FiniteSets, TLC

None == {}
Some(v) == {v}
Get(o) == CHOOSE v \in o : TRUE

(***************************************************************************)
(* Bounds of the model.                                                    *)
(***************************************************************************)
\* participants of a group, at most
MaxParticipants == 2
\* clock ticks in one second (the resolution of the model's clock)
TicksPerSecond == 2
\* ticks the clock can advance during one run
MaxTicks == 3
\* ticks that can pass between two statements of a handler, at most
MaxElapse == 2
\* client wrappers LoadUserLogin builds during one run, at most
MaxLoads == 2

(***************************************************************************)
(* JIDs (whatsmeow types.JID): user, device and server.                    *)
(***************************************************************************)
DefaultUserServer == "s.whatsapp.net"
GroupServer == "g.us"
BroadcastServer == "broadcast"
NewsletterServer == "newsletter"
HiddenUserServer == "lid"
LegacyUserServer == "c.us"

JID(user, device, server) == [User |-> user, Device |-> device, Server |-> server]
EmptyJID == JID("", 0, "")
StatusBroadcastJID == JID("status", 0, BroadcastServer)
ToNonAD(jid) == JID(jid.User, 0, jid.Server)
IsEmpty(jid) == jid.Server = ""

Users == {"u1", "u2"}
Devices == {0, 1}

\* waid.MakeUserID: the bridge's user identifier of a JID
MakeUserID(jid) == jid.User
\* waid.MakePortalID
MakePortalID(jid) == jid.User \o "@" \o jid.Server

(***************************************************************************)
(* Instants of mute-until fields, written as RFC 3339 strings.             *)
(***************************************************************************)
\* bridgev2.Unmuted: the zero time.Time
Unmuted == "0001-01-01T00:00:00Z"
\* event.MutedForever
MutedForever == "9999-12-31T23:59:59.999999999Z"
\* some ordinary instant a chat is muted until, and its Unix seconds
SomeMuteEnd == "2027-01-15T08:00:00Z"
SomeMuteEndUnix == 1800000000
UnixEpoch == "1970-01-01T00:00:00Z"

\* time.Unix(sec, 0) on the seconds a conversation carries
TimeUnix(sec) == IF sec = SomeMuteEndUnix THEN SomeMuteEnd ELSE UnixEpoch

RoomTagFavourite == "m.favourite"
RoomTagLowPriority == "m.lowpriority"
RoomTypeDM == "dm"
RoomTypeDefault == ""
RoomTypeSpace == "space"
DisappearingTypeAfterRead == "after_read"
MembershipJoin == "join"

StatusBroadcastTopic == "WhatsApp status updates from your contacts"
StatusBroadcastName == "WhatsApp Status Broadcast"
PrivateChatTopic == "WhatsApp private chat"

nobodyPL == 99
superAdminPL == 75
adminPL == 50
defaultPL == 0

(***************************************************************************)
(* Go maps: a function on the set of keys; a later write of a key replaces *)
(* the earlier one.                                                        *)
(***************************************************************************)
EmptyMap == [k \in {} |-> 0]
MapPut(m, k, v) == [x \in (DOMAIN m) \cup {k} |-> IF x = k THEN v ELSE m[x]]

(***************************************************************************)
(* Records of the bridge framework (bridgev2), with Go's zero values.      *)
(***************************************************************************)
EventSender(isFromMe, sender, senderLogin) == [IsFromMe |-> isFromMe, Sender |-> sender, SenderLogin |-> senderLogin]
ChatMember(eventSender, membership, powerLevel) == [EventSender |-> eventSender, Membership |-> membership, PowerLevel |-> powerLevel]
ChatMemberList(isFull, total, other, memberMap, powerLevels) == [IsFull |-> isFull, TotalMemberCount |-> total, OtherUserID |-> other, MemberMap |-> memberMap, PowerLevels |-> powerLevels]
UserLocalPortalInfo(mutedUntil, tag) == [MutedUntil |-> mutedUntil, Tag |-> tag]
DisappearingSetting(type, timer) == [Type |-> type, Timer |-> timer]
PowerLevelOverrides(eventsDefault, stateDefault, ban, events) == [EventsDefault |-> eventsDefault, StateDefault |-> stateDefault, Ban |-> ban, Events |-> events]
PowerLevelEvents(metaChange) == [StateRoomName |-> metaChange, StateRoomAvatar |-> metaChange, StateTopic |-> metaChange, EventReaction |-> defaultPL, EventRedaction |-> defaultPL]
Avatar(id, remove, get) == [ID |-> id, Remove |-> remove, Get |-> get]

\* the zero bridgev2.ChatInfo
EmptyChatInfo ==
    [Name |-> None, Topic |-> None, Avatar |-> None, Members |-> None,
     Type |-> None, UserLocal |-> None, Disappear |-> None, ParentID |-> None,
     CanBackfill |-> FALSE, ExtraUpdates |-> <<>>]

(***************************************************************************)
(* The client wrapper wa is the record [JID |-> the login's own JID].      *)
(***************************************************************************)
makeEventSender(wa, id) == EventSender(id.User = wa.JID.User, MakeUserID(id), id.User)

wrapDMInfoNoSelfSplit(wa, jid) ==
    [EmptyChatInfo EXCEPT
        !.Topic = Some(PrivateChatTopic),
        !.Members = Some(ChatMemberList(TRUE, 2, MakeUserID(jid),
            MapPut(MapPut(EmptyMap,
                MakeUserID(jid), ChatMember(makeEventSender(wa, jid), "", None)),
                MakeUserID(wa.JID), ChatMember(makeEventSender(wa, wa.JID), "", None)),
            None)),
        !.Type = Some(RoomTypeDM)]

wrapDMInfo(wa, jid) ==
    LET info == [EmptyChatInfo EXCEPT
                    !.Topic = Some(PrivateChatTopic),
                    !.Members = Some(ChatMemberList(TRUE, 2, MakeUserID(jid),
                        MapPut(MapPut(EmptyMap,
                            MakeUserID(jid), ChatMember(makeEventSender(wa, jid), "", None)),
                            MakeUserID(wa.JID), ChatMember(makeEventSender(wa, wa.JID), "", None)),
                        None)),
                    !.Type = Some(RoomTypeDM)]
    IN  IF jid = ToNonAD(wa.JID)
        THEN [info EXCEPT !.Members = Some([Get(info.Members) EXCEPT !.MemberMap =
                MapPut(MapPut(EmptyMap,
                    MakeUserID(jid), ChatMember(EventSender(FALSE, MakeUserID(jid), ""), "", None)),
                    "", ChatMember(EventSender(TRUE, "", ""), "", None))])]
        ELSE info

wrapStatusBroadcastInfo(wa) ==
    [EmptyChatInfo EXCEPT
        !.Name = Some(StatusBroadcastName),
        !.Topic = Some(StatusBroadcastTopic),
        !.Members = Some(ChatMemberList(FALSE, 0, "",
            MapPut(EmptyMap, MakeUserID(wa.JID), ChatMember(makeEventSender(wa, wa.JID), "", None)),
            None)),
        !.Type = Some(RoomTypeDefault),
        !.CanBackfill = FALSE]

(***************************************************************************)
(* Groups (whatsmeow types.GroupInfo and types.GroupParticipant).          *)
(***************************************************************************)
GroupParticipant(jid, isAdmin, isSuperAdmin) == [JID |-> jid, IsAdmin |-> isAdmin, IsSuperAdmin |-> isSuperAdmin]

\* connector.go:343-349 with the admin flag tested before the super-admin flag
participantPLAdminFirst(pcp) ==
    IF pcp.IsAdmin THEN adminPL
    ELSE IF pcp.IsSuperAdmin THEN superAdminPL
    ELSE defaultPL

\* connector.go:343-349
participantPL(pcp) ==
    IF pcp.IsSuperAdmin THEN superAdminPL
    ELSE IF pcp.IsAdmin THEN adminPL
    ELSE defaultPL

\* the loop of connector.go:335-351 from participant i on, memberMap so far
RECURSIVE wrapGroupMembers(_, _, _, _)
wrapGroupMembers(wa, participants, i, memberMap) ==
    IF i > Len(participants) THEN memberMap
    ELSE LET pcp == participants[i]
         IN  IF pcp.JID.Server # DefaultUserServer
             THEN wrapGroupMembers(wa, participants, i + 1, memberMap)
             ELSE wrapGroupMembers(wa, participants, i + 1,
                    MapPut(memberMap, MakeUserID(pcp.JID),
                        ChatMember(makeEventSender(wa, pcp.JID), MembershipJoin, Some(participantPL(pcp)))))

\* connector.go:300-303 reading IsLocked instead of IsAnnounce
sendEventPLFromLocked(info) == IF info.IsLocked THEN adminPL ELSE defaultPL

\* connector.go:300-303
sendEventPL(info) == IF info.IsAnnounce THEN adminPL ELSE defaultPL

\* connector.go:304-307
metaChangePL(info) == IF info.IsLocked THEN adminPL ELSE defaultPL

wrapGroupInfo(wa, info) ==
    [EmptyChatInfo EXCEPT
        !.Name = Some(info.Name),
        !.Topic = Some(info.Topic),
        !.Members = Some(ChatMemberList(~info.IsIncognito, Len(info.Participants), "",
            wrapGroupMembers(wa, info.Participants, 1, EmptyMap),
            Some(PowerLevelOverrides(Some(sendEventPL(info)), Some(nobodyPL), Some(nobodyPL),
                PowerLevelEvents(metaChangePL(info)))))),
        !.Disappear = Some(DisappearingSetting(DisappearingTypeAfterRead, info.DisappearingTimer)),
        !.ParentID = IF ~IsEmpty(info.LinkedParentJID) THEN Some(MakePortalID(info.LinkedParentJID)) ELSE None,
        !.Type = IF info.IsParent THEN Some(RoomTypeSpace) ELSE Some(RoomTypeDefault)]

(***************************************************************************)
(* Newsletters (whatsmeow types.NewsletterMetadata).                       *)
(***************************************************************************)
NewsletterRoleSubscriber == "subscriber"
NewsletterRoleAdmin == "admin"
NewsletterRoleOwner == "owner"
NewsletterMuteOn == "on"
NewsletterMuteOff == "off"
\* a mute state the server sends that is neither "on" nor "off"
NewsletterMuteOther == ""

\* connector.go:366-380, mutedUntil
newsletterMutedUntil(info) ==
    IF info.ViewerMeta = None THEN None
    ELSE IF Get(info.ViewerMeta).Mute = NewsletterMuteOn THEN Some(MutedForever)
    ELSE IF Get(info.ViewerMeta).Mute = NewsletterMuteOff THEN Some(Unmuted)
    ELSE None

\* connector.go:365-373, ownPowerLevel
newsletterOwnPowerLevel(info) ==
    IF info.ViewerMeta = None THEN defaultPL
    ELSE IF Get(info.ViewerMeta).Role = NewsletterRoleAdmin THEN adminPL
    ELSE IF Get(info.ViewerMeta).Role = NewsletterRoleOwner THEN superAdminPL
    ELSE defaultPL

\* connector.go:381-401; the Get closure is named by the fetch it makes
newsletterAvatar(info) ==
    IF info.ThreadMeta.Picture # None
    THEN Avatar(Get(info.ThreadMeta.Picture).ID, FALSE, "DownloadPicture")
    ELSE IF info.ThreadMeta.Preview.ID # ""
    THEN Avatar(info.ThreadMeta.Preview.ID, FALSE, "GetNewsletterInfoThenDownloadPicture")
    ELSE Avatar("remove", TRUE, "")

wrapNewsletterInfo(wa, info) ==
    [EmptyChatInfo EXCEPT
        !.Name = Some(info.ThreadMeta.Name),
        !.Topic = Some(info.ThreadMeta.Description),
        !.Avatar = Some(newsletterAvatar(info)),
        !.UserLocal = Some(UserLocalPortalInfo(newsletterMutedUntil(info), None)),
        !.Members = Some(ChatMemberList(FALSE, info.ThreadMeta.SubscriberCount, "",
            MapPut(EmptyMap, MakeUserID(wa.JID),
                ChatMember(makeEventSender(wa, wa.JID), "", Some(newsletterOwnPowerLevel(info)))),
            Some(PowerLevelOverrides(Some(adminPL), Some(nobodyPL), Some(nobodyPL),
                PowerLevelEvents(adminPL))))),
        !.Type = Some(RoomTypeDefault)]

(***************************************************************************)
(* The second pass: chat settings and history-sync conversation data.      *)
(***************************************************************************)
\* whatsmeow types.LocalChatSettings
LocalChatSettings(mutedUntil, pinned, archived) == [MutedUntil |-> mutedUntil, Pinned |-> pinned, Archived |-> archived]

\* chat is what GetChatSettings returned: None when it returned an error
applyChatSettings(chat, info) ==
    IF chat = None THEN info
    ELSE [info EXCEPT !.UserLocal = Some(UserLocalPortalInfo(
            Some(Get(chat).MutedUntil),
            IF Get(chat).Pinned THEN Some(RoomTagFavourite)
            ELSE IF Get(chat).Archived THEN Some(RoomTagLowPriority)
            ELSE None))]

\* the hook updateDisappearingTimerSetAt(ts) returns, run on a portal's
\* metadata: the metadata after it, and whether it reports a change
updateDisappearingTimerSetAt(ts, meta) ==
    IF meta.DisappearingTimerSetAt # ts
    THEN [meta |-> [meta EXCEPT !.DisappearingTimerSetAt = ts], changed |-> TRUE]
    ELSE [meta |-> meta, changed |-> FALSE]

\* waHistorySync.Conversation, the fields applyHistoryInfo reads
Conversation(muteEndTime, pinned, archived, ephemeralExpiration, ephemeralSettingTimestamp) ==
    [MuteEndTime |-> muteEndTime, Pinned |-> pinned, Archived |-> archived,
     EphemeralExpiration |-> ephemeralExpiration,
     EphemeralSettingTimestamp |-> ephemeralSettingTimestamp]

\* ExtraUpdates is the sequence of the timestamps ts of the hooks
\* updateDisappearingTimerSetAt(ts) merged into it (MergeExtraUpdaters)
applyHistoryInfo(info, conv) ==
    IF conv = None THEN info
    ELSE LET c == Get(conv)
             withLocal == [info EXCEPT
                !.CanBackfill = TRUE,
                !.UserLocal = Some(UserLocalPortalInfo(
                    Some(TimeUnix(c.MuteEndTime)),
                    IF c.Pinned > 0 THEN Some(RoomTagFavourite)
                    ELSE IF c.Archived THEN Some(RoomTagLowPriority)
                    ELSE None))]
         IN  IF c.EphemeralExpiration > 0
             THEN [withLocal EXCEPT
                    !.Disappear = Some(DisappearingSetting(DisappearingTypeAfterRead, c.EphemeralExpiration)),
                    !.ExtraUpdates = Append(info.ExtraUpdates, c.EphemeralSettingTimestamp)]
             ELSE withLocal

(***************************************************************************)
(* Portal identifiers.  waid.MakePortalID writes the non-device JID as     *)
(* user@server; waid.ParsePortalID reads it back, or fails.                *)
(***************************************************************************)
PortalJIDs ==
    {JID(u, 0, DefaultUserServer) : u \in Users}
        \cup {StatusBroadcastJID, JID("list1", 0, BroadcastServer),
              JID("g1", 0, GroupServer), JID("n1", 0, NewsletterServer),
              JID("lid1", 0, HiddenUserServer), JID("u2", 0, LegacyUserServer)}

PortalIDs == {MakePortalID(jid) : jid \in PortalJIDs} \cup {"not a jid"}

\* [jid, err]: the JID and a nil error, or the empty JID and the error
ParsePortalID(id) ==
    IF \E jid \in PortalJIDs : MakePortalID(jid) = id
    THEN [jid |-> CHOOSE jid \in PortalJIDs : MakePortalID(jid) = id, err |-> ""]
    ELSE [jid |-> EmptyJID, err |-> "failed to parse portal ID"]

(***************************************************************************)
(* What the remote and the local store can answer.                         *)
(***************************************************************************)
ParticipantJIDs == {JID(u, 0, DefaultUserServer) : u \in Users} \cup {JID("lid1", 0, HiddenUserServer)}

Participants == {GroupParticipant(jid, a, sa) : jid \in ParticipantJIDs, a \in BOOLEAN, sa \in BOOLEAN}

\* the participant lists of at most n members; a JID is listed once
RECURSIVE ParticipantLists(_)
ParticipantLists(n) ==
    IF n = 0 THEN {<<>>}
    ELSE LET shorter == ParticipantLists(n - 1)
         IN  shorter \cup
             {Append(l, pcp) : l \in {x \in shorter : Len(x) = n - 1},
                               pcp \in Participants} 

DistinctJIDs(l) == \A i, j \in 1..Len(l) : i # j => l[i].JID # l[j].JID

GroupProfiles ==
    {[IsIncognito |-> FALSE, IsParent |-> FALSE, LinkedParentJID |-> EmptyJID, DisappearingTimer |-> 0],
     [IsIncognito |-> TRUE, IsParent |-> TRUE, LinkedParentJID |-> JID("g0", 0, GroupServer), DisappearingTimer |-> 86400]}

GroupInfos ==
    {[Name |-> "Group", Topic |-> "A group", IsAnnounce |-> an, IsLocked |-> lo,
      IsIncognito |-> pr.IsIncognito, IsParent |-> pr.IsParent,
      LinkedParentJID |-> pr.LinkedParentJID, DisappearingTimer |-> pr.DisappearingTimer,
      Participants |-> l] :
        an \in BOOLEAN, lo \in BOOLEAN, pr \in GroupProfiles,
        l \in {x \in ParticipantLists(MaxParticipants) : DistinctJIDs(x)}}

ViewerMetas ==
    {None} \cup {Some([Role |-> r, Mute |-> m]) :
                    r \in {NewsletterRoleSubscriber, NewsletterRoleAdmin, NewsletterRoleOwner},
                    m \in {NewsletterMuteOn, NewsletterMuteOff, NewsletterMuteOther}}

ThreadMetas ==
    {[Name |-> "News", Description |-> "A newsletter", SubscriberCount |-> 7,
      Picture |-> pic, Preview |-> [ID |-> pre]] :
        pic \in {None, Some([ID |-> "pic1", DirectPath |-> "/pic1"])},
        pre \in {"", "pre1"}}

NewsletterMetadatas ==
    {[ID |-> JID("n1", 0, NewsletterServer), ViewerMeta |-> vm, ThreadMeta |-> tm] :
        vm \in ViewerMetas, tm \in ThreadMetas}

FetchErrors == {"not in group", "request timed out"}

\* a fetch that is not made
NoFetch == [info |-> None, err |-> ""]

\* what GetGroupInfo or GetNewsletterInfo can return for a JID
FetchOutcomes(jid) ==
    IF jid.Server = GroupServer
    THEN {[info |-> Some(g), err |-> ""] : g \in GroupInfos}
            \cup {[info |-> None, err |-> e] : e \in FetchErrors}
    ELSE IF jid.Server = NewsletterServer
    THEN {[info |-> Some(n), err |-> ""] : n \in NewsletterMetadatas}
            \cup {[info |-> None, err |-> e] : e \in FetchErrors}
    ELSE {NoFetch}

\* what GetChatSettings can return: None is an error
ChatSettingsOutcomes ==
    {None, Some(LocalChatSettings(Unmuted, FALSE, FALSE)),
     Some(LocalChatSettings(MutedForever, TRUE, FALSE)),
     Some(LocalChatSettings(SomeMuteEnd, FALSE, TRUE)),
     Some(LocalChatSettings(SomeMuteEnd, TRUE, TRUE))}

(***************************************************************************)
(* GetChatInfo as a function of what it reads: the client wrapper, the     *)
(* portal [ID, Metadata], the answer of the remote fetch (read only when   *)
(* the fetch is made) and the answer of the chat-settings lookup (read     *)
(* only when the lookup is made).  It returns the record, the error, the   *)
(* calls it made in order, and the portal as it leaves it.                 *)
(***************************************************************************)
chatInfoResult(wrapped, err, calls) == [wrapped |-> wrapped, err |-> err, calls |-> calls]

\* the second pass giving up when the chat-settings lookup fails
secondPassLookupFatal(wrapped, calls, chat) ==
    IF chat = None
    THEN chatInfoResult(None, "failed to get chat settings", Append(calls, "GetChatSettings"))
    ELSE chatInfoResult(Some(applyChatSettings(chat, applyHistoryInfo(wrapped, None))), "",
                        Append(calls, "GetChatSettings"))

\* connector.go:191-194
secondPass(wrapped, calls, chat) ==
    chatInfoResult(Some(applyChatSettings(chat, applyHistoryInfo(wrapped, None))), "",
                   Append(calls, "GetChatSettings"))

ErrBroadcastList == "broadcast list bridging is currently not supported"

\* the broadcast case treating every broadcast JID as the status broadcast
broadcastCaseAnyList(wa, portalJID, chat) ==
    secondPass(wrapStatusBroadcastInfo(wa), <<>>, chat)

\* connector.go:170-175
broadcastCase(wa, portalJID, chat) ==
    IF portalJID = StatusBroadcastJID
    THEN secondPass(wrapStatusBroadcastInfo(wa), <<>>, chat)
    ELSE chatInfoResult(None, ErrBroadcastList, <<>>)

\* the group case fetching a second time when the first fetch fails
groupCaseRetry(wa, portalJID, fetch, chat) ==
    IF fetch.err # ""
    THEN chatInfoResult(None, fetch.err, <<"GetGroupInfo", "GetGroupInfo">>)
    ELSE secondPass(wrapGroupInfo(wa, Get(fetch.info)), <<"GetGroupInfo">>, chat)

\* connector.go:176-181
groupCase(wa, portalJID, fetch, chat) ==
    IF fetch.err # ""
    THEN chatInfoResult(None, fetch.err, <<"GetGroupInfo">>)
    ELSE secondPass(wrapGroupInfo(wa, Get(fetch.info)), <<"GetGroupInfo">>, chat)

\* connector.go:182-187
newsletterCase(wa, portalJID, fetch, chat) ==
    IF fetch.err # ""
    THEN chatInfoResult(None, fetch.err, <<"GetNewsletterInfo">>)
    ELSE secondPass(wrapNewsletterInfo(wa, Get(fetch.info)), <<"GetNewsletterInfo">>, chat)

\* connector.go:163-194
chatInfoSwitch(wa, portalID, fetch, chat) ==
    LET parsed == ParsePortalID(portalID)
        portalJID == parsed.jid
    IN  IF parsed.err # "" THEN chatInfoResult(None, parsed.err, <<>>)
        ELSE IF portalJID.Server = DefaultUserServer
        THEN secondPass(wrapDMInfo(wa, portalJID), <<>>, chat)
        ELSE IF portalJID.Server = BroadcastServer
        THEN broadcastCase(wa, portalJID, chat)
        ELSE IF portalJID.Server = GroupServer
        THEN groupCase(wa, portalJID, fetch, chat)
        ELSE IF portalJID.Server = NewsletterServer
        THEN newsletterCase(wa, portalJID, fetch, chat)
        ELSE chatInfoResult(None, "unsupported server " \o portalJID.Server, <<>>)

\* GetChatInfo writing the disappearing timer's timestamp into the portal
\* while it builds the record
GetChatInfoEagerWrite(wa, portal, fetch, chat) ==
    LET r == chatInfoSwitch(wa, portal.ID, fetch, chat)
    IN  [wrapped |-> r.wrapped, err |-> r.err, calls |-> r.calls,
         portal |-> IF r.wrapped # None /\ Get(r.wrapped).Disappear # None
                    THEN [portal EXCEPT !.Metadata.DisappearingTimerSetAt = Get(Get(r.wrapped).Disappear).Timer]
                    ELSE portal]

GetChatInfo(wa, portal, fetch, chat) ==
    LET r == chatInfoSwitch(wa, portal.ID, fetch, chat)
    IN  [wrapped |-> r.wrapped, err |-> r.err, calls |-> r.calls, portal |-> portal]

(***************************************************************************)
(* The clock and the login's metadata.  Clock readings are ticks since an  *)
(* origin shortly before the run; Go's zero time.Time lies far before it.  *)
(***************************************************************************)
Second == TicksPerSecond
Hour == 3600 * Second
\* 24 * time.Hour
Day == 24 * Hour
StartTime == 10 * Day + 1
ZeroTime == -(1000 * Day)

\* jsontime.Unix as it is written to the database: whole Unix seconds, 0
\* for the zero time
MarshalUnix(t) == IF t = ZeroTime THEN 0 ELSE t \div TicksPerSecond
\* and as it is read back
UnmarshalUnix(sec) == IF sec = 0 THEN ZeroTime ELSE sec * TicksPerSecond

UserLoginMetadata(lastHistorySync) == [LastHistorySync |-> lastHistorySync]
\* login.Save: the row written for the metadata
SavedMetadata(meta) == [LastHistorySync |-> MarshalUnix(meta.LastHistorySync)]

(***************************************************************************)
(* Command handlers.  A handler is a function of the world w it runs in    *)
(* ([now, loginMeta, loginSaved, joined]), the login it finds (None, or    *)
(* Some([loggedIn])) and the outcomes of the calls it makes; it returns    *)
(* the world it leaves and the trace of what it did, in order.  An entry   *)
(* of the trace tells the event, its text (a reply's message, a call's     *)
(* argument), the clock and the LastHistorySync of the metadata then.      *)
(***************************************************************************)
Event(ev, text, w) == [ev |-> ev, text |-> text, at |-> w.now, lastSync |-> w.loginMeta.LastHistorySync]
Reply(text, w) == Event("Reply", text, w)
Handled(w, trace) == [w |-> w, trace |-> trace]

\* waid.ParseUserLoginID
ParseUserLoginID(id, device) == JID(id, device, DefaultUserServer)

ReplyNoReplyTo == "You must reply to a group invite message when using this command."
ReplyLookupFailed == "Failed to get reply event"
ReplyNotFound == "Reply event not found"
ReplyNotInvite == "That doesn't look like a group invite message."
ReplyOwnInvite == "You can't accept your own invites"
ReplyLoginNotFound == "Login not found"
ReplyNotLoggedIn == "Not logged in"
ReplyJoinFailed == "Failed to accept group invite: "
ReplyJoined == "Successfully accepted the invite, the portal should be created momentarily"
ReplyNoAccount == "No WhatsApp account found. Please use !wa login to connect your WhatsApp account."
ReplyExportFailed == "Failed to send groups to ReMatch backend: "
ReplyExported == "Successfully sent your WhatsApp groups to ReMatch backend."
ReplyLessThanDay == "Sync test completed: Last sync was less than 24 hours ago. Check logs for 'SYNC SKIPPED' message."
ReplyMoreThanDay == "Sync test completed: Last sync was more than 24 hours ago. A new sync should have been initiated."

\* fnAccept without the comparison of the inviter with the receiver
fnAcceptAnyInviter(w, ce, login) ==
    IF ce.ReplyTo = "" THEN Handled(w, <<Reply(ReplyNoReplyTo, w)>>)
    ELSE IF ce.lookup.err # "" THEN Handled(w, <<Reply(ReplyLookupFailed, w)>>)
    ELSE IF ce.lookup.message = None THEN Handled(w, <<Reply(ReplyNotFound, w)>>)
    ELSE LET meta == Get(ce.lookup.message).GroupInvite
         IN  IF meta = None THEN Handled(w, <<Reply(ReplyNotInvite, w)>>)
             ELSE IF login = None THEN Handled(w, <<Reply(ReplyLoginNotFound, w)>>)
             ELSE IF ~Get(login).loggedIn THEN Handled(w, <<Reply(ReplyNotLoggedIn, w)>>)
             ELSE LET join == Event("JoinGroupWithInvite", Get(meta).Code, w)
                  IN  IF ce.joinErr # ""
                      THEN Handled(w, <<join, Reply(ReplyJoinFailed \o ce.joinErr, w)>>)
                      ELSE LET w1 == [w EXCEPT !.joined = @ \cup {Get(meta).JID}]
                           IN  Handled(w1, <<join, Reply(ReplyJoined, w1)>>)

\* ce: [ReplyTo, lookup |-> [message, err] (what GetPartByMXID returns),
\* Receiver, joinErr (what JoinGroupWithInvite returns)]; login is what
\* GetCachedUserLoginByID(ce.Portal.Receiver) returns
fnAccept(w, ce, login) ==
    IF ce.ReplyTo = "" THEN Handled(w, <<Reply(ReplyNoReplyTo, w)>>)
    ELSE IF ce.lookup.err # "" THEN Handled(w, <<Reply(ReplyLookupFailed, w)>>)
    ELSE IF ce.lookup.message = None THEN Handled(w, <<Reply(ReplyNotFound, w)>>)
    ELSE LET meta == Get(ce.lookup.message).GroupInvite
         IN  IF meta = None THEN Handled(w, <<Reply(ReplyNotInvite, w)>>)
             ELSE IF Get(meta).Inviter.User = ParseUserLoginID(ce.Receiver, 0).User
             THEN Handled(w, <<Reply(ReplyOwnInvite, w)>>)
             ELSE IF login = None THEN Handled(w, <<Reply(ReplyLoginNotFound, w)>>)
             ELSE IF ~Get(login).loggedIn THEN Handled(w, <<Reply(ReplyNotLoggedIn, w)>>)
             ELSE LET join == Event("JoinGroupWithInvite", Get(meta).Code, w)
                  IN  IF ce.joinErr # ""
                      THEN Handled(w, <<join, Reply(ReplyJoinFailed \o ce.joinErr, w)>>)
                      ELSE LET w1 == [w EXCEPT !.joined = @ \cup {Get(meta).JID}]
                           IN  Handled(w1, <<join, Reply(ReplyJoined, w1)>>)

\* fnListGroups setting LastHistorySync to the current time
fnListGroupsNoOffset(w, ce, login) ==
    IF login = None THEN Handled(w, <<Reply(ReplyNoAccount, w)>>)
    ELSE IF ~Get(login).loggedIn THEN Handled(w, <<Reply(ReplyNotLoggedIn, w)>>)
    ELSE LET w1 == [w EXCEPT !.loginMeta = UserLoginMetadata(w.now)]
             w2 == [w1 EXCEPT !.now = @ + ce.saveTakes,
                              !.loginSaved = IF ce.saveErr = "" THEN SavedMetadata(w1.loginMeta) ELSE @]
             save == Event("Save", ce.saveErr, w1)
             export == Event("SendGroupsToReMatchBackend", ce.exportErr, w2)
         IN  IF ce.exportErr # ""
             THEN Handled(w2, <<save, export, Reply(ReplyExportFailed \o ce.exportErr, w2)>>)
             ELSE Handled(w2, <<save, export, Reply(ReplyExported, w2)>>)

\* ce: [saveTakes (the ticks login.Save takes), saveErr (what it returns),
\* exportErr (what SendGroupsToReMatchBackend returns)]; login is what
\* ce.User.GetDefaultLogin() returns
fnListGroups(w, ce, login) ==
    IF login = None THEN Handled(w, <<Reply(ReplyNoAccount, w)>>)
    ELSE IF ~Get(login).loggedIn THEN Handled(w, <<Reply(ReplyNotLoggedIn, w)>>)
    ELSE LET w1 == [w EXCEPT !.loginMeta = UserLoginMetadata(w.now - Day)]
             w2 == [w1 EXCEPT !.now = @ + ce.saveTakes,
                              !.loginSaved = IF ce.saveErr = "" THEN SavedMetadata(w1.loginMeta) ELSE @]
             save == Event("Save", ce.saveErr, w1)
             export == Event("SendGroupsToReMatchBackend", ce.exportErr, w2)
         IN  IF ce.exportErr # ""
             THEN Handled(w2, <<save, export, Reply(ReplyExportFailed \o ce.exportErr, w2)>>)
             ELSE Handled(w2, <<save, export, Reply(ReplyExported, w2)>>)

\* handleWAHistorySync on a synthetic INITIAL_BOOTSTRAP event: skipped when
\* the last sync is less than 24 hours old, else the sync runs and the
\* metadata records it
handleWAHistorySync(w) ==
    IF w.now - w.loginMeta.LastHistorySync < Day THEN w
    ELSE [w EXCEPT !.loginMeta = UserLoginMetadata(w.now),
                   !.loginSaved = SavedMetadata(UserLoginMetadata(w.now))]

\* ce: [syncTakes (the ticks until handleWAHistorySync is entered)]
fnTestSyncTimer(w, ce, login) ==
    IF login = None THEN Handled(w, <<Reply(ReplyNoAccount, w)>>)
    ELSE IF ~Get(login).loggedIn THEN Handled(w, <<Reply(ReplyNotLoggedIn, w)>>)
    ELSE LET lastSync == w.loginMeta.LastHistorySync
             timeSinceLastSync == w.now - lastSync
             w1 == [w EXCEPT !.now = @ + ce.syncTakes]
             w2 == handleWAHistorySync(w1)
             sync == Event("handleWAHistorySync", "INITIAL_BOOTSTRAP", w1)
         IN  IF timeSinceLastSync < Day
             THEN Handled(w2, <<sync, Reply(ReplyLessThanDay, w2)>>)
             ELSE Handled(w2, <<sync, Reply(ReplyMoreThanDay, w2)>>)

(***************************************************************************)
(* LoadUserLogin as a function of the login [ID, Metadata, Client], what   *)
(* DeviceStore.GetDevice returns ([device, err]), what Connect returns and *)
(* the number n of wrappers built before (a new wrapper is a new object).  *)
(* It returns the login as it leaves it, the error and the calls made.     *)
(***************************************************************************)
WhatsAppClient(login, device, n, connected) == [UserLogin |-> login.ID, Device |-> device, n |-> n, connected |-> connected]
Loaded(login, err, calls) == [login |-> login, err |-> err, calls |-> calls]

\* LoadUserLogin returning the error of Connect
LoadUserLoginConnectFatal(login, lookup, connectErr, n) ==
    IF lookup.err # "" THEN Loaded(login, lookup.err, <<"GetDevice">>)
    ELSE IF connectErr # ""
    THEN Loaded(login, connectErr, <<"GetDevice", "MakeNewClient", "Connect">>)
    ELSE Loaded([login EXCEPT !.Client = Some(WhatsAppClient(login, lookup.device, n + 1, TRUE))],
                "", <<"GetDevice", "MakeNewClient", "Connect">>)

LoadUserLogin(login, lookup, connectErr, n) ==
    IF lookup.err # "" THEN Loaded(login, lookup.err, <<"GetDevice">>)
    ELSE LET w == WhatsAppClient(login, lookup.device, n + 1, connectErr = "")
             made == <<"GetDevice", "MakeNewClient", "Connect">>
         IN  IF connectErr # ""
             THEN Loaded([login EXCEPT !.Client = Some(w)], "",
                         Append(made, "Log: Error connecting to WhatsApp"))
             ELSE Loaded([login EXCEPT !.Client = Some(w)], "", made)

(***************************************************************************)
(* The state.                                                              *)
(***************************************************************************)
VARIABLES
    now,         \* the clock
    waJID,       \* wa.JID, the own JID of the client wrapper
    login,       \* the user's login as the commands find it: None or Some([loggedIn])
    loginMeta,   \* login.Metadata of the commands' login
    loginSaved,  \* its row in the database
    joined,      \* remote state: the groups joined by invite
    portalMeta,  \* portal.Metadata
    lastOp,      \* the operation that ran last
    chatArgs,    \* GetChatInfo: what the last call was given
    wrapped,     \* the chat-info record in the caller's hands (None: nil)
    err,         \* the error the last call returned ("" is nil)
    calls,       \* the calls the last GetChatInfo or LoadUserLogin made
    cmdArgs,     \* the last command and what it was given
    trace,       \* what the last command did
    userLogin,   \* LoadUserLogin: the login object
    loads,       \* client wrappers built so far
    loadArgs     \* LoadUserLogin: what the last call was given

vars == <<now, waJID, login, loginMeta, loginSaved, joined, portalMeta, lastOp,
          chatArgs, wrapped, err, calls, cmdArgs, trace, userLogin, loads, loadArgs>>

chatVars == <<chatArgs, wrapped>>
cmdVars == <<cmdArgs, trace>>
loadVars == <<userLogin, loads, loadArgs>>

PortalMetadata(setAt) == [DisappearingTimerSetAt |-> setAt]
NoChatArgs == [portalID |-> "", fetch |-> NoFetch, chat |-> None]
NoCmdArgs == [cmd |-> "", ce |-> <<>>, login |-> None, before |-> UserLoginMetadata(ZeroTime)]
NoLoadArgs == [lookup |-> [device |-> None, err |-> ""], connectErr |-> "", clientBefore |-> None]

Logins == {None, Some([loggedIn |-> FALSE]), Some([loggedIn |-> TRUE])}

\* a user without a login yet, whose metadata records no history sync
Init ==
    /\ now = StartTime
    /\ waJID \in {JID("u1", d, DefaultUserServer) : d \in Devices}
    /\ login = None
    /\ loginMeta = UserLoginMetadata(ZeroTime)
    /\ loginSaved = SavedMetadata(loginMeta)
    /\ joined = {}
    /\ portalMeta = PortalMetadata(0)
    /\ lastOp = "Init"
    /\ chatArgs = NoChatArgs
    /\ wrapped = None
    /\ err = ""
    /\ calls = <<>>
    /\ cmdArgs = NoCmdArgs
    /\ trace = <<>>
    /\ userLogin = [ID |-> waJID.User, Metadata |-> [WADeviceID |-> waJID.Device], Client |-> None]
    /\ loads = 0
    /\ loadArgs = NoLoadArgs

(***************************************************************************)
(* Chat info: the framework calls GetChatInfo on a portal, may have        *)
(* history-sync data applied to the record, and then takes the result:     *)
(* Portal.UpdateInfo runs the record's ExtraUpdates hooks on the portal.   *)
(***************************************************************************)
Pending == lastOp \in {"GetChatInfo", "applyHistoryInfo"}
\* a command or LoadUserLogin has run and the framework has not finished
\* the event yet
Running == lastOp \in {"accept", "list-groups", "test-sync-timer", "LoadUserLogin"}
Idle == ~Pending /\ ~Running

Conversations ==
    {Conversation(0, 0, TRUE, 0, 0),
     Conversation(SomeMuteEndUnix, 1, FALSE, 86400, 1700000000)}

CallGetChatInfo ==
    /\ Idle
    /\ \E portalID \in PortalIDs :
       \E fetch \in FetchOutcomes(ParsePortalID(portalID).jid) :
       \E chat \in ChatSettingsOutcomes :
         LET r == GetChatInfo([JID |-> waJID], [ID |-> portalID, Metadata |-> portalMeta], fetch, chat)
             fetched == \E i \in 1..Len(r.calls) : r.calls[i] \in {"GetGroupInfo", "GetNewsletterInfo"}
             lookedUp == \E i \in 1..Len(r.calls) : r.calls[i] = "GetChatSettings"
         IN  /\ wrapped' = r.wrapped
             /\ err' = r.err
             /\ calls' = r.calls
             /\ portalMeta' = r.portal.Metadata
             /\ chatArgs' = [portalID |-> portalID,
                             fetch |-> IF fetched THEN fetch ELSE NoFetch,
                             chat |-> IF lookedUp THEN chat ELSE None]
    /\ lastOp' = "GetChatInfo"
    /\ UNCHANGED <<now, waJID, login, loginMeta, loginSaved, joined, cmdVars, loadVars>>

CallApplyHistoryInfo ==
    /\ lastOp = "GetChatInfo"
    /\ wrapped # None
    /\ \E conv \in Conversations :
         wrapped' = Some(applyHistoryInfo(Get(wrapped), Some(conv)))
    /\ lastOp' = "applyHistoryInfo"
    /\ UNCHANGED <<now, waJID, login, loginMeta, loginSaved, joined, portalMeta,
                   chatArgs, err, calls, cmdVars, loadVars>>

\* the hooks of ExtraUpdates run in order on the portal's metadata
RECURSIVE RunExtraUpdates(_, _)
RunExtraUpdates(hooks, meta) ==
    IF hooks = <<>> THEN meta
    ELSE RunExtraUpdates(Tail(hooks), updateDisappearingTimerSetAt(Head(hooks), meta).meta)

PortalUpdateInfo ==
    /\ Pending
    /\ portalMeta' = IF wrapped = None THEN portalMeta
                     ELSE RunExtraUpdates(Get(wrapped).ExtraUpdates, portalMeta)
    /\ wrapped' = None
    /\ err' = ""
    /\ calls' = <<>>
    /\ chatArgs' = NoChatArgs
    /\ lastOp' = "UpdateInfo"
    /\ UNCHANGED <<now, waJID, login, loginMeta, loginSaved, joined, cmdVars, loadVars>>

(***************************************************************************)
(* Commands.                                                               *)
(***************************************************************************)
World == [now |-> now, loginMeta |-> loginMeta, loginSaved |-> loginSaved, joined |-> joined]

Elapses == 0..MaxElapse

GroupInvites ==
    {[JID |-> JID("g1", 0, GroupServer), Inviter |-> JID(u, 0, DefaultUserServer),
      Code |-> "code1", Expiration |-> 0] : u \in Users}

\* what GetPartByMXID can return: an error, no message, a message
MessageLookups ==
    {[message |-> None, err |-> "database is locked"], [message |-> None, err |-> ""],
     [message |-> Some([GroupInvite |-> None]), err |-> ""]}
        \cup {[message |-> Some([GroupInvite |-> Some(inv)]), err |-> ""] : inv \in GroupInvites}

AcceptEvents ==
    [ReplyTo : {"", "$invite"}, lookup : MessageLookups, Receiver : Users,
     joinErr : {"", "invite expired"}]

ListGroupsEvents == [saveTakes : Elapses, saveErr : {"", "database is locked"}, exportErr : {"", "backend unreachable"}]

TestSyncTimerEvents == [syncTakes : Elapses]

\* the handler's result h becomes the state
Handle(cmd, ce, found, h) ==
    /\ Idle
    /\ h.w.now <= StartTime + MaxTicks
    /\ now' = h.w.now
    /\ loginMeta' = h.w.loginMeta
    /\ loginSaved' = h.w.loginSaved
    /\ joined' = h.w.joined
    /\ trace' = h.trace
    /\ cmdArgs' = [cmd |-> cmd, ce |-> ce, login |-> found, before |-> loginMeta]
    /\ lastOp' = cmd
    /\ UNCHANGED <<waJID, login, portalMeta, chatVars, err, calls, loadVars>>

\* GetCachedUserLoginByID: the login, when it is the receiver's
CachedLogin(receiver) == IF receiver = waJID.User THEN login ELSE None

CallAccept ==
    \E ce \in AcceptEvents :
        Handle("accept", ce, CachedLogin(ce.Receiver), fnAccept(World, ce, CachedLogin(ce.Receiver)))

CallListGroups ==
    \E ce \in ListGroupsEvents :
        Handle("list-groups", ce, login, fnListGroups(World, ce, login))

CallTestSyncTimer ==
    \E ce \in TestSyncTimerEvents :
        Handle("test-sync-timer", ce, login, fnTestSyncTimer(World, ce, login))

Tick ==
    /\ Idle
    /\ now < StartTime + MaxTicks
    /\ now' = now + 1
    /\ lastOp' = "Tick"
    /\ UNCHANGED <<waJID, login, loginMeta, loginSaved, joined, portalMeta,
                   chatVars, err, calls, cmdVars, loadVars>>

\* the user logs in or out, or the login is deleted
LoginChanges ==
    /\ Idle
    /\ \E l \in Logins : l # login /\ login' = l
    /\ lastOp' = "LoginChanges"
    /\ UNCHANGED <<now, waJID, loginMeta, loginSaved, joined, portalMeta,
                   chatVars, err, calls, cmdVars, loadVars>>

(***************************************************************************)
(* Loading a login.                                                        *)
(***************************************************************************)
DeviceLookups ==
    {[device |-> Some("device1"), err |-> ""], [device |-> None, err |-> ""],
     [device |-> None, err |-> "database is locked"]}

ConnectErrors == {"", "websocket dial failed"}

CallLoadUserLogin ==
    /\ Idle
    /\ loads < MaxLoads
    /\ \E lookup \in DeviceLookups : \E connectErr \in ConnectErrors :
         LET r == LoadUserLogin(userLogin, lookup, connectErr, loads)
             connects == \E i \in 1..Len(r.calls) : r.calls[i] = "Connect"
         IN  /\ userLogin' = r.login
             /\ err' = r.err
             /\ calls' = r.calls
             /\ loads' = IF connects THEN loads + 1 ELSE loads
             /\ loadArgs' = [lookup |-> lookup, connectErr |-> IF connects THEN connectErr ELSE "",
                             clientBefore |-> userLogin.Client]
    /\ lastOp' = "LoadUserLogin"
    /\ UNCHANGED <<now, waJID, login, loginMeta, loginSaved, joined, portalMeta,
                   chatVars, cmdVars>>

\* the framework finishes the event of a command or of LoadUserLogin
EventDone ==
    /\ Running
    /\ trace' = <<>>
    /\ cmdArgs' = NoCmdArgs
    /\ err' = ""
    /\ calls' = <<>>
    /\ loadArgs' = NoLoadArgs
    /\ lastOp' = "EventDone"
    /\ UNCHANGED <<now, waJID, login, loginMeta, loginSaved, joined, portalMeta,
                   chatVars, userLogin, loads>>

(***************************************************************************)
(* Specifications: the whole connector, and each of its three parts alone. *)
(***************************************************************************)
NextChat == CallGetChatInfo \/ CallApplyHistoryInfo \/ PortalUpdateInfo
NextCmd == CallAccept \/ CallListGroups \/ CallTestSyncTimer \/ EventDone \/ Tick \/ LoginChanges
NextLoad == CallLoadUserLogin \/ EventDone \/ Tick \/ LoginChanges

Next ==
    \/ CallGetChatInfo \/ CallApplyHistoryInfo \/ PortalUpdateInfo
    \/ CallAccept \/ CallListGroups \/ CallTestSyncTimer
    \/ CallLoadUserLogin \/ EventDone \/ Tick \/ LoginChanges

Spec == Init /\ [][Next]_vars
SpecChat == Init /\ [][NextChat]_vars
SpecCmd == Init /\ [][NextCmd]_vars
SpecLoad == Init /\ [][NextLoad]_vars

(***************************************************************************)
(* Properties.                                                             *)
(***************************************************************************)
\* the positions of the trace where the event ev happened
EventsOf(ev) == {i \in 1..Len(trace) : trace[i].ev = ev}
\* list-groups found a login that is logged in, and so reached the export
ListGroupsExported ==
    lastOp = "list-groups" /\ cmdArgs.login # None /\ Get(cmdArgs.login).loggedIn

\* the JID of the portal the last GetChatInfo was called on
ChatJID == ParsePortalID(chatArgs.portalID).jid
\* the last operation was GetChatInfo on a portal of this server
LastChat(server) ==
    lastOp = "GetChatInfo" /\ ParsePortalID(chatArgs.portalID).err = "" /\ ChatJID.Server = server
MemberMapOf(info) == Get(info.Members).MemberMap

\* C1 as stated: whenever list-groups reaches the export, the LastHistorySync
\* of the login's metadata is, at the moment SendGroupsToReMatchBackend is
\* called, strictly more than 24 hours before the clock.
C1_StrictlyMoreThanDayAtExport ==
    ListGroupsExported =>
        /\ EventsOf("SendGroupsToReMatchBackend") # {}
        /\ \A i \in EventsOf("SendGroupsToReMatchBackend") :
            trace[i].at - trace[i].lastSync > Day

\* C1 as amended: whenever list-groups reaches the export, LastHistorySync
\* was set to the clock minus 24 hours and login.Save was called once, both
\* before the one call of SendGroupsToReMatchBackend; at that call the
\* timestamp is at least (not strictly more than) 24 hours before the
\* clock, whatever it was before, and it is not written again afterwards.
\* When Save succeeded the row in the database holds the timestamp in whole
\* seconds, also at least 24 hours before the clock; when Save failed the
\* row is left as it was and the export is made all the same.
C1_AtLeastDayAtExport ==
    ListGroupsExported =>
        /\ Cardinality(EventsOf("SendGroupsToReMatchBackend")) = 1
        /\ Cardinality(EventsOf("Save")) = 1
        /\ \A i \in EventsOf("SendGroupsToReMatchBackend") : \A j \in EventsOf("Save") :
            /\ j < i
            /\ trace[j].lastSync = trace[j].at - Day
            /\ trace[i].lastSync = trace[j].lastSync
            /\ trace[i].at - trace[i].lastSync >= Day
            /\ loginMeta.LastHistorySync = trace[i].lastSync
            /\ trace[j].text = "" =>
                /\ loginSaved = SavedMetadata(loginMeta)
                /\ trace[i].at - UnmarshalUnix(loginSaved.LastHistorySync) >= Day

\* list-groups exported although the timestamp before it was less than 24
\* hours old, the save took time and failed
C1_Witness ==
    /\ ListGroupsExported
    /\ EventsOf("SendGroupsToReMatchBackend") # {}
    /\ cmdArgs.before.LastHistorySync > trace[1].at - Day
    /\ cmdArgs.ce.saveTakes > 0
    /\ cmdArgs.ce.saveErr # ""

\* C2: GetChatInfo on a newsletter whose viewer metadata has mute state "on"
\* returns a record whose user-local mute-until is MutedForever, and with
\* mute state "off" Unmuted, for every outcome of the chat-settings lookup.
C2_NewsletterMuteSentinel ==
    (LastChat(NewsletterServer) /\ wrapped # None /\ Get(chatArgs.fetch.info).ViewerMeta # None) =>
        LET mute == Get(Get(chatArgs.fetch.info).ViewerMeta).Mute
            local == Get(wrapped).UserLocal
        IN  /\ mute = NewsletterMuteOn => local # None /\ Get(local).MutedUntil = Some(MutedForever)
            /\ mute = NewsletterMuteOff => local # None /\ Get(local).MutedUntil = Some(Unmuted)

\* C3: the member map GetChatInfo returns for a direct chat with the own
\* non-device JID has exactly two entries, one keyed by the empty string with
\* IsFromMe, one keyed by the peer's user id whose sender is the peer; for
\* any other direct chat it is keyed by the peer and by the logged-in user.
C3_SelfChatIsSplit ==
    (LastChat(DefaultUserServer) /\ wrapped # None) =>
        LET m == MemberMapOf(Get(wrapped))
            peer == MakeUserID(ChatJID)
        IN  IF ChatJID = ToNonAD(waJID)
            THEN /\ DOMAIN m = {"", peer}
                 /\ Cardinality(DOMAIN m) = 2
                 /\ m[""].EventSender.IsFromMe
                 /\ m[peer].EventSender.Sender = peer
                 /\ ~m[peer].EventSender.IsFromMe
            ELSE DOMAIN m = {peer, MakeUserID(waJID)}

\* a chat with oneself, the own JID carrying a device
C3_Witness ==
    /\ LastChat(DefaultUserServer)
    /\ wrapped # None
    /\ waJID.Device # 0
    /\ ChatJID = ToNonAD(waJID)

\* C4: GetChatInfo on a broadcast JID other than the status broadcast returns
\* the "not supported" error and no record and makes no call at all; on a
\* JID of a server other than user, broadcast, group and newsletter it
\* returns an error and no record.
C4_BroadcastListUnsupported ==
    /\ (LastChat(BroadcastServer) /\ ChatJID # StatusBroadcastJID) =>
            /\ err = ErrBroadcastList
            /\ wrapped = None
            /\ calls = <<>>
    /\ \A server \in {HiddenUserServer, LegacyUserServer} :
        LastChat(server) => err # "" /\ wrapped = None /\ calls = <<>>

\* GetChatInfo has just run on a broadcast list
C4_Witness ==
    /\ LastChat(BroadcastServer)
    /\ ChatJID = JID("list1", 0, BroadcastServer)
    /\ err # ""

\* the participants of the group the last GetChatInfo fetched
ChatParticipants == Get(chatArgs.fetch.info).Participants
\* the power level the three-tier admin model gives a participant
TierPL(pcp) == IF pcp.IsSuperAdmin THEN 75 ELSE IF pcp.IsAdmin THEN 50 ELSE 0

\* C5 as stated: every participant of the group has, in the record
\* GetChatInfo returns, power level 75 when it is super-admin (admin or
\* not), 50 when it is admin only, 0 when it is neither.
C5_EveryParticipantPowerLevel ==
    (LastChat(GroupServer) /\ wrapped # None) =>
        \A i \in 1..Len(ChatParticipants) :
            LET pcp == ChatParticipants[i]
                m == MemberMapOf(Get(wrapped))
            IN  /\ MakeUserID(pcp.JID) \in DOMAIN m
                /\ m[MakeUserID(pcp.JID)].PowerLevel = Some(TierPL(pcp))

\* C5 as amended: every participant whose JID is on the default user server
\* has power level 75 when it is super-admin (admin or not), 50 when it is
\* admin only, 0 when it is neither; a participant on any other server is
\* skipped: the member map has the user-server participants and no others.
C5_UserServerParticipantPowerLevel ==
    (LastChat(GroupServer) /\ wrapped # None) =>
        LET m == MemberMapOf(Get(wrapped))
            bridged == {i \in 1..Len(ChatParticipants) : ChatParticipants[i].JID.Server = DefaultUserServer}
        IN  /\ DOMAIN m = {MakeUserID(ChatParticipants[i].JID) : i \in bridged}
            /\ \A i \in bridged :
                m[MakeUserID(ChatParticipants[i].JID)].PowerLevel = Some(TierPL(ChatParticipants[i]))

\* a group with a user-server participant that is both admin and super-admin
\* and a super-admin on another server
C5_Witness ==
    /\ LastChat(GroupServer)
    /\ wrapped # None
    /\ \E i, j \in 1..Len(ChatParticipants) :
        /\ ChatParticipants[i].JID.Server = DefaultUserServer
        /\ ChatParticipants[i].IsSuperAdmin /\ ChatParticipants[i].IsAdmin
        /\ ChatParticipants[j].JID.Server # DefaultUserServer
        /\ ChatParticipants[j].IsSuperAdmin

\* C6: the events-default power level of a group's record is 50 when
\* IsAnnounce and 0 when not, whatever IsLocked; the power level for room
\* name, avatar and topic is 50 when IsLocked and 0 when not, whatever
\* IsAnnounce.
C6_GroupThresholds ==
    (LastChat(GroupServer) /\ wrapped # None) =>
        LET info == Get(chatArgs.fetch.info)
            pl == Get(Get(Get(wrapped).Members).PowerLevels)
            meta == IF info.IsLocked THEN 50 ELSE 0
        IN  /\ pl.EventsDefault = Some(IF info.IsAnnounce THEN 50 ELSE 0)
            /\ pl.Events.StateRoomName = meta
            /\ pl.Events.StateRoomAvatar = meta
            /\ pl.Events.StateTopic = meta

\* an announce group that is not locked
C6_Witness ==
    /\ LastChat(GroupServer)
    /\ wrapped # None
    /\ Get(chatArgs.fetch.info).IsAnnounce
    /\ ~Get(chatArgs.fetch.info).IsLocked

\* what a command did, without the clock: the events and their texts
Outline == [i \in 1..Len(trace) |-> <<trace[i].ev, trace[i].text>>]
\* the reply of the first check that fails, in the order of the checks;
\* "" when all pass.  A check is <<fails, reply>>.
RECURSIVE FirstFailure(_)
FirstFailure(checks) ==
    IF checks = <<>> THEN ""
    ELSE IF Head(checks)[1] THEN Head(checks)[2]
    ELSE FirstFailure(Tail(checks))

LoginChecks(found, missing) ==
    << <<found = None, missing>>,
       <<found # None /\ ~Get(found).loggedIn, ReplyNotLoggedIn>> >>

AcceptChecks ==
    LET ce == cmdArgs.ce
        hasMessage == ce.lookup.err = "" /\ ce.lookup.message # None
        hasInvite == hasMessage /\ Get(ce.lookup.message).GroupInvite # None
    IN  << <<ce.ReplyTo = "", ReplyNoReplyTo>>,
           <<ce.lookup.err # "", ReplyLookupFailed>>,
           <<ce.lookup.message = None, ReplyNotFound>>,
           <<~hasInvite, ReplyNotInvite>>,
           <<hasInvite /\ Get(Get(ce.lookup.message).GroupInvite).Inviter.User = ce.Receiver, ReplyOwnInvite>> >>
        \o LoginChecks(cmdArgs.login, ReplyLoginNotFound)

\* the checks of the command that ran last, its remote action and the
\* replies to the action's failure and success
CommandChecks ==
    IF lastOp = "accept" THEN AcceptChecks ELSE LoginChecks(cmdArgs.login, ReplyNoAccount)
CommandAction ==
    IF lastOp = "accept" THEN <<"JoinGroupWithInvite", "code1">>
    ELSE IF lastOp = "list-groups" THEN <<"SendGroupsToReMatchBackend", cmdArgs.ce.exportErr>>
    ELSE <<"handleWAHistorySync", "INITIAL_BOOTSTRAP">>
CommandOutcomes ==
    IF lastOp = "accept"
    THEN IF cmdArgs.ce.joinErr # "" THEN {ReplyJoinFailed \o cmdArgs.ce.joinErr} ELSE {ReplyJoined}
    ELSE IF lastOp = "list-groups"
    THEN IF cmdArgs.ce.exportErr # "" THEN {ReplyExportFailed \o cmdArgs.ce.exportErr} ELSE {ReplyExported}
    ELSE {ReplyLessThanDay, ReplyMoreThanDay}

\* C7: a command ends with exactly one reply, its last event.  When one of
\* its checks fails, taken in their order, that check's reply is all the
\* command does; the remote action is made, once, only when every check
\* passed, and the reply is then the action's failure or success reply.
\* accept makes no JoinGroupWithInvite when the inviter is the receiver's own
\* user, when no login is cached or when the login is not logged in.
C7_OneReplyAfterOrderedChecks ==
    lastOp \in {"accept", "list-groups", "test-sync-timer"} =>
        /\ Cardinality(EventsOf("Reply")) = 1
        /\ trace[Len(trace)].ev = "Reply"
        /\ IF FirstFailure(CommandChecks) # ""
           THEN Outline = << <<"Reply", FirstFailure(CommandChecks)>> >>
           ELSE /\ Cardinality(EventsOf(CommandAction[1])) = 1
                /\ \E i \in 1..Len(trace) : Outline[i] = CommandAction /\ i < Len(trace)
                /\ trace[Len(trace)].text \in CommandOutcomes
        /\ lastOp = "accept" /\ EventsOf("JoinGroupWithInvite") # {} =>
            /\ Get(Get(cmdArgs.ce.lookup.message).GroupInvite).Inviter.User # cmdArgs.ce.Receiver
            /\ cmdArgs.login # None
            /\ Get(cmdArgs.login).loggedIn

\* accept on the own invite of a login that is cached and logged in
C7_Witness ==
    /\ lastOp = "accept"
    /\ cmdArgs.ce.ReplyTo # ""
    /\ cmdArgs.ce.lookup.message # None
    /\ Get(cmdArgs.ce.lookup.message).GroupInvite # None
    /\ Get(Get(cmdArgs.ce.lookup.message).GroupInvite).Inviter.User = cmdArgs.ce.Receiver
    /\ cmdArgs.login # None
    /\ Get(cmdArgs.login).loggedIn
    /\ Outline = << <<"Reply", ReplyOwnInvite>> >>

\* C8: a step that builds chat info (GetChatInfo with the steps it runs, or
\* applyHistoryInfo on the record) leaves the remote state, the portal's
\* metadata, the login's metadata and its saved row unchanged; the portal's
\* metadata is written only by the step that runs the record's updater
\* hooks, and only when the record carries one.
C8_ConstructionWritesNothing ==
    [][/\ lastOp' \in {"GetChatInfo", "applyHistoryInfo"} =>
            UNCHANGED <<joined, portalMeta, loginMeta, loginSaved, login>>
       /\ portalMeta' # portalMeta =>
            /\ lastOp' = "UpdateInfo"
            /\ wrapped # None
            /\ Get(wrapped).ExtraUpdates # <<>>]_vars

\* GetChatInfo has returned the record of a group with a disappearing timer
\* for a portal whose metadata an updater hook wrote before
C8_Witness ==
    /\ LastChat(GroupServer)
    /\ wrapped # None
    /\ Get(Get(wrapped).Disappear).Timer # 0
    /\ portalMeta.DisappearingTimerSetAt # 0

\* C9: when the device record is loaded, LoadUserLogin returns no error and
\* leaves a new client wrapper on the login, also when Connect fails, which
\* is only logged; when the lookup of the device record fails it returns
\* that error, does not connect and leaves login.Client as it was.
C9_ConnectFailureIsNotFatal ==
    lastOp = "LoadUserLogin" =>
        IF loadArgs.lookup.err = ""
        THEN /\ err = ""
             /\ userLogin.Client # None
             /\ Get(userLogin.Client).n = loads
             /\ userLogin.Client # loadArgs.clientBefore
             /\ Get(userLogin.Client).Device = loadArgs.lookup.device
             /\ \E i \in 1..Len(calls) : calls[i] = "Connect"
             /\ loadArgs.connectErr # "" =>
                    /\ ~Get(userLogin.Client).connected
                    /\ calls[Len(calls)] = "Log: Error connecting to WhatsApp"
        ELSE /\ err = loadArgs.lookup.err
             /\ calls = <<"GetDevice">>
             /\ userLogin.Client = loadArgs.clientBefore

\* the device was found and Connect failed, on a login that had a client
C9_Witness ==
    /\ lastOp = "LoadUserLogin"
    /\ loadArgs.lookup.err = ""
    /\ loadArgs.connectErr # ""
    /\ loadArgs.clientBefore # None
    /\ err = ""

\* C10: when GetGroupInfo or GetNewsletterInfo fails, GetChatInfo returns
\* that error and no record, having made the fetch once and no chat-settings
\* lookup; GetChatInfo returns either a record or an error, never both and
\* never neither.
C10_FetchErrorPropagates ==
    /\ lastOp = "GetChatInfo" => (wrapped = None) # (err = "")
    /\ (LastChat(GroupServer) /\ chatArgs.fetch.err # "") =>
            err = chatArgs.fetch.err /\ wrapped = None /\ calls = <<"GetGroupInfo">>
    /\ (LastChat(NewsletterServer) /\ chatArgs.fetch.err # "") =>
            err = chatArgs.fetch.err /\ wrapped = None /\ calls = <<"GetNewsletterInfo">>

\* GetGroupInfo has failed
C10_Witness ==
    /\ LastChat(GroupServer)
    /\ chatArgs.fetch.err = "request timed out"
    /\ err = "request timed out"

\* the record the type branch of the last GetChatInfo builds from what it
\* read, before the second pass
BranchRecord ==
    LET wa == [JID |-> waJID]
    IN  IF ChatJID.Server = DefaultUserServer THEN wrapDMInfo(wa, ChatJID)
        ELSE IF ChatJID.Server = BroadcastServer THEN wrapStatusBroadcastInfo(wa)
        ELSE IF ChatJID.Server = GroupServer THEN wrapGroupInfo(wa, Get(chatArgs.fetch.info))
        ELSE wrapNewsletterInfo(wa, Get(chatArgs.fetch.info))
\* the last operation was GetChatInfo on a supported chat and its type branch
\* has built a record: a direct chat, the status broadcast, or a group or
\* newsletter whose fetch succeeded
BranchBuilt ==
    /\ lastOp = "GetChatInfo"
    /\ ParsePortalID(chatArgs.portalID).err = ""
    /\ \/ ChatJID.Server = DefaultUserServer
       \/ ChatJID = StatusBroadcastJID
       \/ /\ ChatJID.Server \in {GroupServer, NewsletterServer}
          /\ chatArgs.fetch.err = ""
          /\ chatArgs.fetch.info # None
\* the tag the chat settings ask for
SettingsTag(chat) ==
    IF chat.Pinned THEN Some(RoomTagFavourite)
    ELSE IF chat.Archived THEN Some(RoomTagLowPriority)
    ELSE None

\* C11: for a direct chat, the status broadcast, a group and a newsletter,
\* GetChatInfo looks the chat settings up once, after the type branch has
\* built the record (and after its fetch, if any), and returns a record
\* and no error whatever the lookup answers.
\* When the lookup fails the returned record is exactly the one the type
\* branch built.  When it succeeds the record's user-local mute-until is the
\* stored value and its tag is favourite if the chat is pinned (archived or
\* not), low-priority if it is archived and not pinned, and absent otherwise.
C11_SecondPassAppliesChatSettings ==
    BranchBuilt =>
        /\ wrapped # None
        /\ err = ""
        /\ Len(calls) >= 1
        /\ calls[Len(calls)] = "GetChatSettings"
        /\ \A i \in 1..(Len(calls) - 1) : calls[i] # "GetChatSettings"
        /\ IF chatArgs.chat = None
           THEN Get(wrapped) = BranchRecord
           ELSE LET chat == Get(chatArgs.chat)
                    local == Get(wrapped).UserLocal
                IN  /\ local # None
                    /\ Get(local).MutedUntil = Some(chat.MutedUntil)
                    /\ Get(local).Tag = SettingsTag(chat)
                    /\ chat.Pinned => Get(local).Tag = Some(RoomTagFavourite)
                    /\ (chat.Archived /\ ~chat.Pinned) => Get(local).Tag = Some(RoomTagLowPriority)
                    /\ (~chat.Archived /\ ~chat.Pinned) => Get(local).Tag = None

\* the chat-settings lookup has failed for a newsletter muted "on": the
\* record comes back with the mute the newsletter branch gave it
C11_Witness ==
    /\ BranchBuilt
    /\ wrapped # None
    /\ ChatJID.Server = NewsletterServer
    /\ calls = <<"GetNewsletterInfo", "GetChatSettings">>
    /\ chatArgs.chat = None
    /\ err = ""
    /\ Get(wrapped).UserLocal # None
    /\ Get(Get(wrapped).UserLocal).MutedUntil = Some(MutedForever)

====
